---- MODULE Spec2Model ----
(***************************************************************************)
(* Model of the LocalLeads lead-generation pipeline.                       *)
(*                                                                         *)
(*   prog = "app" : gemini_client.enrich_leads / enrich_business_data      *)
(*   prog = "gem" : the gem_app enrichment loop around                     *)
(*                  gem_gemini_enrichment.enrich_lead_data_with_gemini     *)
(*   prog = "maps": google_maps_client.get_business_leads, one place       *)
(*                                                                         *)
(* A Python dict is a function whose DOMAIN is its key set.  A Python list *)
(* of dicts that the code shares by reference (enrich_leads) is a sequence *)
(* of indices into the sequence of objects `leads`.  Python values other   *)
(* than integers are written as strings ("[]" is the empty list).          *)
(***************************************************************************)
EXTENDS Integers, Sequences, FiniteSets, TLC

VARIABLES
    prog,             \* which program this behaviour runs
    pc,               \* position of the single thread of control
    leads,            \* the lead objects of the input list, in list order
    leads0,           \* the input list as it was when the call was made
    max_leads,        \* argument of enrich_leads
    top_leads,        \* app: references (indices into leads) selected
    enriched_leads,   \* app: references appended to the output list
    out_list,         \* gem: enriched_leads_data_list (a list of new dicts)
    i,                \* loop position, 1-based
    search_results,   \* app: snippets returned by search_business_info
    inflight,         \* generate_content calls issued and not yet returned
    log,              \* external calls and delays, in order: <<kind, lead>>
    raised,           \* leads whose enrichment call raised to its caller
    enrich_toggle,    \* gem: the enrichment checkbox
    final_leads_df,   \* gem: st.session_state.final_leads_df, as a list
    place,            \* maps: businesses, the raw nearby-search records
    details,          \* maps: what get_place_details returned last
    business_data,    \* maps: the lead under construction
    arg,              \* the input of a function checked on its own
    ret,              \* what that function returned
    session,          \* a script run: st.session_state flags, the message
                      \* shown, and the places the nearby search found
    page_token        \* find_nearby_places: the token of the next page

vars == <<prog, pc, leads, leads0, max_leads, top_leads, enriched_leads,
          out_list, i, search_results, inflight, log, raised,
          enrich_toggle, final_leads_df, place, details, business_data,
          arg, ret, session, page_token>>

(***************************************************************************)
(* Bounds                                                                  *)
(***************************************************************************)
MaxLen == 3
MaxMaxLeads == 4
MaxTextLen == 3
MaxPlaces == 2
MaxReviews == 360
MaxFound == 9
MaxPages == 4
MaxRuns == 2

(***************************************************************************)
(* Dict helpers                                                            *)
(***************************************************************************)
EmptyDict == [k \in {} |-> ""]

\* dict.update(e) / business[key] = value for every item of e
Update(d, e) == [k \in (DOMAIN d) \cup (DOMAIN e) |->
                    IF k \in DOMAIN e THEN e[k] ELSE d[k]]

\* dict.get(key, default)
Get(d, k, default) == IF k \in DOMAIN d THEN d[k] ELSE default

None == "<None>"

\* no next_page_token (page tokens are page numbers)
NoToken == 0

Append2(s, a, b) == Append(Append(s, a), b)

Min(a, b) == IF a <= b THEN a ELSE b

Take(s, n) == SubSeq(s, 1, Min(n, Len(s)))

(***************************************************************************)
(* Keys                                                                    *)
(***************************************************************************)
EnrichKeys == {"description", "company_size", "decision_makers",
               "pain_points", "recommended_approach", "outreach_template"}

IdentityKeys == {"place_id", "name", "address", "lat", "lng", "rating",
                 "reviews", "lead_score"}

GemKeys == {"enriched_website", "linkedin_url", "key_contacts", "description"}

(***************************************************************************)
(* gemini_client.py: pure parts                                            *)
(***************************************************************************)

\* sorted(..., reverse=True) is stable: an element goes after every element
\* already placed whose key is at least its own.
StaysBeforeStrict(placedKey, newKey) == placedKey > newKey

StaysBefore(placedKey, newKey) == placedKey >= newKey

ScoreKey(L, x) == Get(L[x], "lead_score", 0)

RECURSIVE InsertDesc(_, _, _)
InsertDesc(s, x, L) ==
    IF s = <<>> THEN <<x>>
    ELSE IF StaysBefore(ScoreKey(L, Head(s)), ScoreKey(L, x))
         THEN <<Head(s)>> \o InsertDesc(Tail(s), x, L)
         ELSE <<x>> \o s

RECURSIVE SortedDescUpTo(_, _)
SortedDescUpTo(L, n) ==
    IF n = 0 THEN <<>> ELSE InsertDesc(SortedDescUpTo(L, n - 1), n, L)

\* sorted(leads, key=lead_score, reverse=True)[:max_leads], as references
SelectTop(L, m) == Take(SortedDescUpTo(L, Len(L)), m)

\* A response text is a sequence of tokens: the two markdown fences, a JSON
\* object in double quotes (OBJ), the same object in single quotes (OBJ1Q),
\* a JSON value that is not an object (LIST), and anything else (junk).
\* the fence that opens a json block, and the bare fence
FenceJson == "FENCE_JSON"
Fence == "FENCE"
IsFence(t) == t \in {FenceJson, Fence}

HasTok(text, t) == \E n \in 1..Len(text) : text[n] = t

FirstIndex(text, t) == CHOOSE n \in 1..Len(text) :
                          text[n] = t /\ \A m \in 1..(n - 1) : text[m] # t

AfterFirst(text, t) == SubSeq(text, FirstIndex(text, t) + 1, Len(text))

RECURSIVE UpToTok(_, _)
UpToTok(text, stop) ==
    IF text = <<>> \/ Head(text) \in stop THEN <<>>
    ELSE <<Head(text)>> \o UpToTok(Tail(text), stop)

\* lines 149-156
ExtractJson(text) ==
    IF HasTok(text, FenceJson)
    THEN UpToTok(AfterFirst(text, FenceJson), {FenceJson, Fence})
    ELSE IF HasTok(text, Fence)
         THEN UpToTok(AfterFirst(text, Fence), {Fence})
         ELSE text

\* json.loads: "obj", "list" or "error"
Loads(j) == IF j = <<"OBJ">> THEN "obj"
            ELSE IF j = <<"LIST">> THEN "list"
            ELSE "error"

\* line 161: single quotes become double quotes
ReplaceQuotes(j) == [n \in 1..Len(j) |-> IF j[n] = "OBJ1Q" THEN "OBJ" ELSE j[n]]

\* lines 158-162: "obj", "list" or "error" (the second loads raised)
LoadsWithRetry(j) == IF Loads(j) # "error" THEN Loads(j)
                     ELSE Loads(ReplaceQuotes(j))

DefaultsParse ==
    [description |-> "{name} is a {types} business located in {location}.",
     company_size |-> "Small to Medium",
     decision_makers |-> "Owner, General Manager, Operations Director",
     pain_points |-> "Customer acquisition, operational efficiency, technology adoption",
     recommended_approach |-> "Direct outreach highlighting specific value for their business type",
     outreach_template |-> "Hello, I recently came across {name} and was impressed by your services..."]

DefaultsError ==
    [description |-> "{name} operates in {location}. Limited info available.",
     company_size |-> "Unknown",
     decision_makers |-> "Owner, General Manager",
     pain_points |-> "Unknown",
     recommended_approach |-> "Exploratory outreach",
     outreach_template |-> "Hello, I recently discovered {name}. I'd like to learn more about your business..."]

DefaultsLoop ==
    [description |-> "Basic business in {address}",
     company_size |-> "Unknown",
     decision_makers |-> "Owner/Manager",
     pain_points |-> "Unknown",
     recommended_approach |-> "Exploratory contact",
     outreach_template |-> "Hello, I'm reaching out regarding {name}..."]

\* lines 164-165: every item of the decoded object is stored in the lead
MergeDecoded(business, enriched_data) == Update(business, enriched_data)

\* lines 145-177: the lead after the response text has been handled; payload
\* is the object that the OBJ token of the text denotes
ParseResponse(business, text, payload) ==
    IF LoadsWithRetry(ExtractJson(text)) = "obj"
    THEN MergeDecoded(business, payload)
    ELSE Update(business, DefaultsParse)

\* line 110: len(business_address.split(",")) raises on a non-string
AddressSplitRaises(business) ==
    Get(business, "full_address", Get(business, "address", "")) = None

(***************************************************************************)
(* Inputs of the enrichment programs                                       *)
(***************************************************************************)
PlaceIds == <<"p1", "p2", "p3", "p4", "p5", "p6">>

GoodAddress == "1 Main St, Springfield, IL"

\* rating is in tenths of a star
MakeLead(n, k) ==
    [place_id |-> PlaceIds[n], name |-> k.name, address |-> k.address,
     lat |-> 40, lng |-> 74, rating |-> 45, reviews |-> 200,
     lead_score |-> k.score]

LeadKinds ==
    { [score |-> 90, name |-> "Acme Cafe", address |-> GoodAddress],
      [score |-> 70, name |-> "",          address |-> GoodAddress],
      [score |-> 90, name |-> "Acme Cafe", address |-> None] }

LeadLists(kinds) ==
    { [n \in 1..Len(ks) |-> MakeLead(n, ks[n])] :
        ks \in UNION { [1..len -> kinds] : len \in 0..MaxLen } }

\* the scenario of the sort-stability property: scores 90, 70, 90, 50
ExampleScores == <<90, 70, 90, 50>>
ExampleLeads ==
    [n \in 1..4 |-> MakeLead(n, [score |-> ExampleScores[n],
                                 name |-> "Acme Cafe", address |-> GoodAddress])]

\* a lead as get_business_leads builds it: every string field is a string
NormalizerProduced(lead) == lead.address # None

\* objects a response can decode to
FullPayload == [k \in EnrichKeys |-> "genuine"]
PartialPayload == [k \in {"description", "company_size"} |-> "genuine"]
IdentPayload == [place_id |-> "p-other", name |-> "Other Name", lead_score |-> 0]
                   @@ FullPayload
Payloads == {FullPayload, PartialPayload, IdentPayload}

Texts == { <<"OBJ">>, <<"OBJ1Q">>, <<"LIST">>, <<"junk">>, <<>>,
           <<FenceJson, "OBJ", Fence>>, <<Fence, "OBJ", Fence>>,
           <<"junk", FenceJson, "OBJ", Fence, "junk">>,
           <<Fence, "junk", "OBJ", Fence>>, <<"junk", "OBJ">> }

(***************************************************************************)
(* gemini_client.py: enrich_business_data                                  *)
(***************************************************************************)
\* the value enrich_business_data hands back, or the fact that it raised
Returned(business) == [raised |-> FALSE, business |-> business]
Raised(business) == [raised |-> TRUE, business |-> business]

OnEnrichErrorPropagates(business) == Raised(business)

\* lines 179-188: the outer handler
OnEnrichError(business) == Returned(Update(business, DefaultsError))

\* lines 108-110
EnrichEntry(business) ==
    IF AddressSplitRaises(business) THEN Raised(business) ELSE Returned(business)

SearchSnippetsEmptyOnFailure(outcome) ==
    IF outcome = "results" THEN <<"result">> ELSE <<>>

\* search_business_info, lines 23-102: the snippets for each outcome of the
\* web request
SearchSnippets(outcome) ==
    IF outcome = "results" THEN <<"result">>
    ELSE <<"industry context", "local business context">>

SearchOutcomes == {"results", "no results", "exception"}

\* search_business_info, lines 23-102, with its last handler: the fallback
\* itself raises when the name is not a string (None.lower()), and a single
\* snippet is returned
SearchBusinessInfo(outcome, business_name) ==
    IF outcome # "results" /\ business_name = None
    THEN [raised |-> FALSE, snippets |-> <<"limited info">>]
    ELSE [raised |-> FALSE, snippets |-> SearchSnippets(outcome)]

(***************************************************************************)
(* gemini_client.py: enrich_leads                                          *)
(***************************************************************************)
NoDelay(x) == <<>>

\* time.sleep(1): the rate-limit delay, as the events it adds to the log
RateLimitDelay(x) == <<<<"sleep", x>>>>

NoFallback(list, base) == list

\* gem_app.py lines 239-241: an empty result falls back to the base leads
Fallback(list, base) == IF list = <<>> THEN base ELSE list

NextIndexSkips(n) == n + 2

\* enumerate(): the next position of the loop
NextIndex(n) == n + 1

Cur == top_leads[i]

EL_CompleteDropsFailed(x, res) ==
    /\ leads' = [leads EXCEPT ![x] =
                    IF res.raised THEN Update(res.business, DefaultsLoop)
                    ELSE res.business]
    /\ raised' = IF res.raised THEN raised \cup {x} ELSE raised
    /\ enriched_leads' = IF res.raised THEN enriched_leads
                         ELSE Append(enriched_leads, x)
    /\ i' = NextIndex(i)
    /\ pc' = "loop"

\* lines 206-219: the call returned or raised; the lead is appended
EL_Complete(x, res) ==
    /\ leads' = [leads EXCEPT ![x] =
                    IF res.raised THEN Update(res.business, DefaultsLoop)
                    ELSE res.business]
    /\ raised' = IF res.raised THEN raised \cup {x} ELSE raised
    /\ enriched_leads' = Append(enriched_leads, x)
    /\ i' = NextIndex(i)
    /\ pc' = "loop"

appOther == <<prog, leads0, max_leads, out_list, enrich_toggle, final_leads_df,
             place, details, business_data, arg, ret, session, page_token>>

\* lines 194-198
EL_Start ==
    /\ prog = "app" /\ pc = "start"
    /\ top_leads' = SelectTop(leads, max_leads)
    /\ enriched_leads' = <<>>
    /\ i' = 1
    /\ pc' = "loop"
    /\ UNCHANGED <<leads, search_results, inflight, log, raised>>
    /\ UNCHANGED appOther

\* lines 200-204
EL_Sleep ==
    /\ prog = "app" /\ pc = "loop" /\ i <= Len(top_leads)
    /\ log' = log \o RateLimitDelay(Cur)
    /\ pc' = "enrich"
    /\ UNCHANGED <<leads, top_leads, enriched_leads, i, search_results,
                   inflight, raised>>
    /\ UNCHANGED appOther

\* lines 221-223
EL_Return ==
    /\ prog = "app" /\ pc = "loop" /\ i > Len(top_leads)
    /\ pc' = "done"
    /\ UNCHANGED <<leads, top_leads, enriched_leads, i, search_results,
                   inflight, log, raised>>
    /\ UNCHANGED appOther

\* lines 108-113: entry and setup_gemini
EBD_Setup ==
    /\ prog = "app" /\ pc = "enrich"
    /\ IF EnrichEntry(leads[Cur]).raised
       THEN /\ EL_Complete(Cur, EnrichEntry(leads[Cur]))
            /\ log' = Append(log, <<"enter", Cur>>)
       ELSE /\ log' = Append2(log, <<"enter", Cur>>, <<"setup", Cur>>)
            /\ \E ok \in BOOLEAN :
                 IF ok THEN /\ pc' = "search"
                            /\ UNCHANGED <<leads, enriched_leads, i, raised>>
                 ELSE EL_Complete(Cur, OnEnrichError(leads[Cur]))
    /\ UNCHANGED <<top_leads, search_results, inflight>>
    /\ UNCHANGED appOther

\* line 114
EBD_Search ==
    /\ prog = "app" /\ pc = "search"
    /\ log' = Append(log, <<"search", Cur>>)
    /\ \E o \in SearchOutcomes :
         search_results' =
             SearchBusinessInfo(o, Get(leads[Cur], "name", "")).snippets
    /\ pc' = "generate"
    /\ UNCHANGED <<leads, top_leads, enriched_leads, i, inflight, raised>>
    /\ UNCHANGED appOther

\* lines 116-144: the prompt is built and generate_content is called
EBD_Generate ==
    /\ prog = "app" /\ pc = "generate"
    /\ log' = Append(log, <<"generate", Cur>>)
    /\ inflight' = inflight + 1
    /\ pc' = "await"
    /\ UNCHANGED <<leads, top_leads, enriched_leads, i, search_results, raised>>
    /\ UNCHANGED appOther

\* lines 144-190: generate_content returns or raises (response.text raises
\* on an empty or blocked response), the text is parsed, the lead returned
EBD_Response ==
    /\ prog = "app" /\ pc = "await"
    /\ inflight' = inflight - 1
    /\ search_results' = <<>>
    /\ \/ EL_Complete(Cur, OnEnrichError(leads[Cur]))
       \/ \E text \in Texts, payload \in Payloads :
            EL_Complete(Cur, Returned(ParseResponse(leads[Cur], text, payload)))
    /\ UNCHANGED <<top_leads, log>>
    /\ UNCHANGED appOther

InitApp ==
    /\ prog = "app" /\ pc = "start"
    /\ leads \in LeadLists(LeadKinds) \cup {ExampleLeads}
    /\ leads0 = leads
    /\ max_leads \in 0..MaxMaxLeads
    /\ top_leads = <<>> /\ enriched_leads = <<>> /\ out_list = <<>>
    /\ i = 1 /\ search_results = <<>> /\ inflight = 0 /\ log = <<>>
    /\ raised = {}
    /\ enrich_toggle = TRUE /\ final_leads_df = <<>>
    /\ place = <<>> /\ details = EmptyDict /\ business_data = EmptyDict
    /\ arg = <<>> /\ ret = <<>> /\ session = <<>> /\ page_token = NoToken

NextApp == EL_Start \/ EL_Sleep \/ EL_Return \/ EBD_Setup \/ EBD_Search
              \/ EBD_Generate \/ EBD_Response


(***************************************************************************)
(* gem_gemini_enrichment.py: enrich_lead_data_with_gemini                  *)
(***************************************************************************)
\* A response text is a sequence of characters: the two braces and "x" for
\* any run of other characters.
Chars == {"{", "}", "x"}

GemTexts == UNION { [1..n -> Chars] : n \in 1..MaxTextLen }

\* str.find / str.rfind, 0-based, -1 when absent
Find(text, c) ==
    IF \E n \in 1..Len(text) : text[n] = c
    THEN (CHOOSE n \in 1..Len(text) :
            text[n] = c /\ \A m \in 1..(n - 1) : text[m] # c) - 1
    ELSE -1

RFindFirst(text, c) ==
    IF \E n \in 1..Len(text) : text[n] = c
    THEN (CHOOSE n \in 1..Len(text) :
            text[n] = c /\ \A m \in 1..(n - 1) : text[m] # c) - 1
    ELSE -1

RFind(text, c) ==
    IF \E n \in 1..Len(text) : text[n] = c
    THEN (CHOOSE n \in 1..Len(text) :
            text[n] = c /\ \A m \in (n + 1)..Len(text) : text[m] # c) - 1
    ELSE -1

\* text[a:b] for 0 <= a < b <= len(text)
Slice(text, a, b) == SubSeq(text, a + 1, b)

\* line 47: name or address missing or empty
MissingInput(lead_data) ==
    Get(lead_data, "name", "") = "" \/ Get(lead_data, "address", "") = ""

MissingInputResult ==
    [linkedin_url |-> "N/A", key_contacts |-> "[]",
     description |-> "Missing Input", enriched_website |-> "N/A"]

\* lines 89-91
GemDefaults ==
    [enriched_website |-> "N/A", linkedin_url |-> "N/A",
     key_contacts |-> "[]", description |-> "N/A"]

IsListValue(v) == v \in {"[]", "[contacts]"}

ValidatedWithDefaults(parsed_json) ==
    [enriched_website |-> Get(parsed_json, "enriched_website", "N/A"),
     linkedin_url |-> Get(parsed_json, "linkedin_url", "N/A"),
     key_contacts |-> Get(parsed_json, "key_contacts", "[]"),
     description |-> Get(parsed_json, "description", "N/A")]

\* lines 115-120
Validated(parsed_json) ==
    [enriched_website |-> Get(parsed_json, "enriched_website", "Parse Error"),
     linkedin_url |-> Get(parsed_json, "linkedin_url", "Parse Error"),
     key_contacts |-> IF IsListValue(Get(parsed_json, "key_contacts", "[]"))
                      THEN Get(parsed_json, "key_contacts", "[]") ELSE "[]",
     description |-> Get(parsed_json, "description", "Parse Error")]

\* json.loads of the candidate: "{}" is the empty object; "{x}" is an object
\* when x is a well-formed member list; nothing else decodes
Decodes(json_str, wellformed) ==
    \/ json_str = <<"{", "}">>
    \/ json_str = <<"{", "x", "}">> /\ wellformed

\* lines 106-132: payload is the object the candidate decodes to
GemParse(response_text, wellformed, payload) ==
    LET json_start == Find(response_text, "{")
        json_end == RFind(response_text, "}") + 1
    IN  IF json_start # -1 /\ json_end > json_start
        THEN IF Decodes(Slice(response_text, json_start, json_end), wellformed)
             THEN Validated(IF Slice(response_text, json_start, json_end)
                                = <<"{", "}">> THEN EmptyDict ELSE payload)
             ELSE [GemDefaults EXCEPT !.description = "JSON Parse Error"]
        ELSE [GemDefaults EXCEPT !.description = "Response Format Error"]

\* the candidate of the text is "{x}": what x holds decides the decoding
HasMembers(response_text) ==
    /\ Find(response_text, "{") # -1
    /\ RFind(response_text, "}") + 1 > Find(response_text, "{")
    /\ Slice(response_text, Find(response_text, "{"),
             RFind(response_text, "}") + 1) = <<"{", "x", "}">>

\* lines 134-140
NoParts(blocked) ==
    [GemDefaults EXCEPT !.description =
        IF blocked THEN "Blocked: reason" ELSE "No response"]

\* the value enrich_lead_data_with_gemini hands back, or the fact that it
\* raised
GemReturned(info) == [raised |-> FALSE, info |-> info]
GemRaised == [raised |-> TRUE, info |-> GemDefaults]

\* lines 147-149: the handler around the call and the parsing
OnApiError == GemReturned([GemDefaults EXCEPT !.description = "API Error"])

GemFull == [enriched_website |-> "https://w", linkedin_url |-> "https://l",
            key_contacts |-> "[contacts]", description |-> "genuine"]
GemPayloads ==
    { GemFull,
      [GemFull EXCEPT !.key_contacts = "Not Found"],
      [description |-> "genuine"],
      [place_id |-> "p-other", name |-> "Other Name", lead_score |-> 0]
          @@ GemFull }

(***************************************************************************)
(* gem_app.py: the enrichment block, lines 189-253                         *)
(***************************************************************************)
\* lines 212-218: the result is merged into a copy of the lead
Merged(lead, enrichment_info) ==
    Update(lead,
           [enriched_website |-> Get(enrichment_info, "enriched_website", "N/A"),
            linkedin_url |-> Get(enrichment_info, "linkedin_url", "N/A"),
            key_contacts |-> Get(enrichment_info, "key_contacts", "[]"),
            description |-> Get(enrichment_info, "description", "N/A")])

\* lines 211-228 when the client returned; lines 235-241 when it raised
G_Complete(res) ==
    IF res.raised
    THEN /\ out_list' = Fallback(out_list, leads)
         /\ raised' = raised \cup {i}
         /\ pc' = "g_store"
         /\ UNCHANGED i
    ELSE /\ out_list' = Append(out_list, Merged(leads[i], res.info))
         /\ i' = NextIndex(i)
         /\ pc' = "g_loop"
         /\ UNCHANGED raised

gemOther == <<prog, leads, leads0, max_leads, top_leads, enriched_leads,
              search_results, enrich_toggle, place, details, business_data,
              arg, ret, session, page_token>>

SkipWithDefaults(base) ==
    [k \in 1..Len(base) |-> Merged(base[k], GemDefaults)]

\* gem_app.py lines 243-245: with the toggle off the fetched list itself is
\* the result
SkipEnrichment(base) == base

\* lines 190-201 and 235-245
G_Begin ==
    /\ prog = "gem" /\ pc = "g_start"
    /\ IF enrich_toggle
       THEN /\ log' = Append(log, <<"client", 0>>)
            /\ \E ok \in BOOLEAN :
                 IF ok THEN /\ pc' = "g_loop"
                            /\ UNCHANGED out_list
                 ELSE /\ out_list' = Fallback(out_list, leads)
                      /\ pc' = "g_store"
       ELSE /\ out_list' = SkipEnrichment(leads)
            /\ pc' = "g_store"
            /\ UNCHANGED log
    /\ UNCHANGED <<i, inflight, final_leads_df, raised>>
    /\ UNCHANGED gemOther

\* lines 204-209 and 47-99: the client is entered; it returns at once on a
\* missing name or address, else it calls generate_content
G_Call ==
    /\ prog = "gem" /\ pc = "g_loop" /\ i <= Len(leads)
    /\ IF MissingInput(leads[i])
       THEN /\ G_Complete(GemReturned(MissingInputResult))
            /\ log' = Append(log, <<"enter", i>>)
            /\ UNCHANGED inflight
       ELSE /\ log' = Append2(log, <<"enter", i>>, <<"generate", i>>)
            /\ inflight' = inflight + 1
            /\ pc' = "g_await"
            /\ UNCHANGED <<out_list, i, raised>>
    /\ UNCHANGED final_leads_df
    /\ UNCHANGED gemOther

\* lines 94-153 and 211-228
G_Response ==
    /\ prog = "gem" /\ pc = "g_await"
    /\ inflight' = inflight - 1
    /\ log' = log \o RateLimitDelay(i)
    /\ \/ G_Complete(OnApiError)
       \/ \E blocked \in BOOLEAN : G_Complete(GemReturned(NoParts(blocked)))
       \/ \E text \in GemTexts :
            IF HasMembers(text)
            THEN \E wf \in BOOLEAN, payload \in GemPayloads :
                    G_Complete(GemReturned(GemParse(text, wf, payload)))
            ELSE G_Complete(GemReturned(GemParse(text, FALSE, EmptyDict)))
    /\ UNCHANGED final_leads_df
    /\ UNCHANGED gemOther

\* lines 203-228 and 235-241: a statement of the loop body other than the
\* client call raises (a Streamlit element call); the handler keeps the
\* records appended so far
G_LoopRaises ==
    /\ prog = "gem" /\ pc = "g_loop" /\ i <= Len(leads)
    /\ out_list' = Fallback(out_list, leads)
    /\ pc' = "g_store"
    /\ UNCHANGED <<i, inflight, log, final_leads_df, raised>>
    /\ UNCHANGED gemOther

\* lines 230-233
G_LoopEnd ==
    /\ prog = "gem" /\ pc = "g_loop" /\ i > Len(leads)
    /\ pc' = "g_store"
    /\ log' = Append(log, <<"complete", 0>>)
    /\ UNCHANGED <<out_list, i, inflight, final_leads_df, raised>>
    /\ UNCHANGED gemOther

\* lines 249-253
G_Store ==
    /\ prog = "gem" /\ pc = "g_store"
    /\ final_leads_df' = IF out_list = <<>> THEN final_leads_df ELSE out_list
    /\ pc' = "done"
    /\ UNCHANGED <<out_list, i, inflight, log, raised>>
    /\ UNCHANGED gemOther

GemLeadKinds ==
    { [score |-> 90, name |-> "Acme Cafe", address |-> GoodAddress],
      [score |-> 70, name |-> "Acme Cafe", address |-> GoodAddress],
      [score |-> 70, name |-> "",          address |-> GoodAddress],
      [score |-> 60, name |-> "Acme Cafe", address |-> ""] }

\* fetch_leads returns its leads in non-increasing lead_score order
SortedByScore(L) ==
    \A a, b \in 1..Len(L) : a < b => L[a].lead_score >= L[b].lead_score

InitGem ==
    /\ prog = "gem" /\ pc = "g_start"
    /\ leads \in { L \in LeadLists(GemLeadKinds) : Len(L) >= 1 /\ SortedByScore(L) }
    /\ leads0 = leads
    /\ max_leads = 0
    /\ top_leads = <<>> /\ enriched_leads = <<>> /\ out_list = <<>>
    /\ i = 1 /\ search_results = <<>> /\ inflight = 0 /\ log = <<>>
    /\ raised = {}
    /\ enrich_toggle \in BOOLEAN /\ final_leads_df = <<>>
    /\ place = <<>> /\ details = EmptyDict /\ business_data = EmptyDict
    /\ arg = <<>> /\ ret = <<>> /\ session = <<>> /\ page_token = NoToken

NextGem ==
    G_Begin \/ G_Call \/ G_Response \/ G_LoopRaises \/ G_LoopEnd \/ G_Store


(***************************************************************************)
(* google_maps_client.py: get_business_leads, lines 106-149                *)
(* The leads built so far (processed_businesses) are held in `leads`.      *)
(***************************************************************************)
\* ratings are in tenths of a star: 4.5 is 45
RatingBonusAt == 45
ReviewsBonusAt == 200
BaseScore == 50
Bonus == 10

\* Python truthiness of a string value or None
Truthy(v) == v \notin {"", None}

\* lines 110-120; geometry.location.lat/lng are the keys lat and lng
BasicInfo(business) ==
    [place_id |-> Get(business, "place_id", ""),
     name |-> Get(business, "name", ""),
     address |-> Get(business, "vicinity", ""),
     lat |-> Get(business, "lat", 0),
     lng |-> Get(business, "lng", 0),
     rating |-> Get(business, "rating", 0),
     reviews |-> Get(business, "user_ratings_total", 0),
     types |-> Get(business, "types", "[]"),
     photos |-> Get(business, "photos", "[]")]

\* lines 124-130
WithDetails(bd, d) ==
    IF d = EmptyDict THEN bd
    ELSE Update(bd,
           [full_address |-> Get(d, "formatted_address", bd.address),
            phone |-> Get(d, "formatted_phone_number", ""),
            website |-> Get(d, "website", ""),
            opening_hours |-> Get(d, "opening_hours", "[]")])

LeadScoreStrict(bd) ==
    LET s0 == BaseScore
        s1 == IF Get(bd, "rating", 0) > RatingBonusAt THEN s0 + Bonus ELSE s0
        s2 == IF Get(bd, "reviews", 0) > ReviewsBonusAt THEN s1 + Bonus ELSE s1
        s3 == IF Truthy(Get(bd, "website", None)) THEN s2 + Bonus ELSE s2
        s4 == IF Truthy(Get(bd, "phone", None)) THEN s3 + Bonus ELSE s3
    IN  s4

\* lines 136-144
LeadScore(bd) ==
    LET s0 == BaseScore
        s1 == IF Get(bd, "rating", 0) >= RatingBonusAt THEN s0 + Bonus ELSE s0
        s2 == IF Get(bd, "reviews", 0) >= ReviewsBonusAt THEN s1 + Bonus ELSE s1
        s3 == IF Truthy(Get(bd, "website", None)) THEN s2 + Bonus ELSE s2
        s4 == IF Truthy(Get(bd, "phone", None)) THEN s3 + Bonus ELSE s3
    IN  s4

\* NoKey marks a key the raw record does not have
NoKey == 0 - 1
OptionalRatings == {NoKey, 44, 45}
OptionalReviews == {NoKey, 199, 200}

RawPlace(n, r, v) ==
    [place_id |-> PlaceIds[n], name |-> "Acme Cafe",
     vicinity |-> "1 Main St, Springfield", lat |-> 40, lng |-> 74,
     types |-> "[cafe]"]
    @@ (IF r = NoKey THEN EmptyDict ELSE [rating |-> r])
    @@ (IF v = NoKey THEN EmptyDict ELSE [user_ratings_total |-> v])

RawPlaceLists ==
    { [n \in 1..Len(rs) |-> RawPlace(n, rs[n][1], rs[n][2])] :
        rs \in UNION { [1..len -> OptionalRatings \X OptionalReviews] :
                          len \in 1..MaxPlaces } }

\* what get_place_details can return: {} on any failure, else the result
DetailResults ==
    { EmptyDict } \cup
    { [formatted_address |-> "1 Main St, Springfield, IL"]
        @@ (IF w = "absent" THEN EmptyDict ELSE [website |-> w])
        @@ (IF ph = "absent" THEN EmptyDict ELSE [formatted_phone_number |-> ph]) :
        w \in {"absent", "https://w"}, ph \in {"absent", "", "555-0100"} }

mapsOther == <<prog, leads0, max_leads, top_leads, enriched_leads, out_list,
               search_results, inflight, raised, enrich_toggle,
               final_leads_df, place, arg, ret, session, page_token>>

\* lines 108-120
M_Basic ==
    /\ prog = "maps" /\ pc = "m_loop" /\ i <= Len(place)
    /\ business_data' = BasicInfo(place[i])
    /\ pc' = "m_details"
    /\ UNCHANGED <<leads, i, log, details>>
    /\ UNCHANGED mapsOther

\* lines 122-133
M_Details ==
    /\ prog = "maps" /\ pc = "m_details"
    /\ \E d \in DetailResults :
         /\ details' = d
         /\ business_data' = WithDetails(business_data, d)
         /\ log' = IF d = EmptyDict
                   THEN Append(log, <<"details", i>>)
                   ELSE Append2(log, <<"details", i>>, <<"sleep", i>>)
    /\ pc' = "m_score"
    /\ UNCHANGED <<leads, i>>
    /\ UNCHANGED mapsOther

\* lines 135-147
M_Score ==
    /\ prog = "maps" /\ pc = "m_score"
    /\ business_data' = Update(business_data,
                               [lead_score |-> LeadScore(business_data)])
    /\ leads' = Append(leads, business_data')
    /\ i' = NextIndex(i)
    /\ pc' = "m_loop"
    /\ UNCHANGED <<log, details>>
    /\ UNCHANGED mapsOther

\* line 149
M_Return ==
    /\ prog = "maps" /\ pc = "m_loop" /\ i > Len(place)
    /\ pc' = "done"
    /\ UNCHANGED <<leads, i, log, details, business_data>>
    /\ UNCHANGED mapsOther

InitMaps ==
    /\ prog = "maps" /\ pc = "m_loop"
    /\ place \in RawPlaceLists
    /\ leads = <<>> /\ leads0 = <<>>
    /\ max_leads = 0
    /\ top_leads = <<>> /\ enriched_leads = <<>> /\ out_list = <<>>
    /\ i = 1 /\ search_results = <<>> /\ inflight = 0 /\ log = <<>>
    /\ raised = {}
    /\ enrich_toggle = TRUE /\ final_leads_df = <<>>
    /\ details = EmptyDict /\ business_data = EmptyDict
    /\ arg = <<>> /\ ret = <<>> /\ session = <<>> /\ page_token = NoToken

NextMaps == M_Basic \/ M_Details \/ M_Score \/ M_Return


(***************************************************************************)
(* Functions checked on their own inputs                                   *)
(***************************************************************************)
\* the variables of the three programs, unused by a function on its own
Idle ==
    /\ leads = <<>> /\ leads0 = <<>> /\ max_leads = 0
    /\ top_leads = <<>> /\ enriched_leads = <<>> /\ out_list = <<>>
    /\ i = 1 /\ search_results = <<>> /\ inflight = 0 /\ log = <<>>
    /\ raised = {}
    /\ enrich_toggle = TRUE /\ final_leads_df = <<>>
    /\ place = <<>> /\ details = EmptyDict /\ business_data = EmptyDict
    /\ session = <<>> /\ page_token = NoToken

funOther == <<prog, leads, leads0, max_leads, top_leads, enriched_leads,
              out_list, i, search_results, inflight, log, raised,
              enrich_toggle, final_leads_df, place, details, business_data,
              arg, session, page_token>>

\* gem_google_maps_client.py line 148:
\*   int(min(rating * 15 + min(reviews / 10, 35), 100))
\* rating is in tenths of a star, so the sum is kept in tenths.  IEEE double
\* arithmetic gives exactly the floor of the exact sum except for the pairs
\* of FloatShortfall, where 4.1 * 15 = 61.49999999999999 makes the sum fall
\* just below a whole number.
ReviewsCap == 350
ScoreCap == 1000
RatingWeight == 15
MaxRatingTenths == 50

FloatShortfall == { <<41, 5>>, <<41, 15>>, <<41, 25>> }

WeightedScoreNoClamp(rating, reviews) ==
    (RatingWeight * rating + Min(reviews, ReviewsCap)) \div 10

WeightedScore(rating, reviews) ==
    LET exact == Min(RatingWeight * rating + Min(reviews, ReviewsCap),
                     ScoreCap) \div 10
    IN  IF <<rating, reviews>> \in FloatShortfall THEN exact - 1 ELSE exact

InitScore ==
    /\ prog = "score" /\ pc = "apply"
    /\ arg \in [rating : 0..MaxRatingTenths, reviews : 0..MaxReviews]
    /\ ret = <<>>
    /\ Idle

P_Score ==
    /\ prog = "score" /\ pc = "apply"
    /\ ret' = WeightedScore(arg.rating, arg.reviews)
    /\ pc' = "done"
    /\ UNCHANGED funOther

InitSearch ==
    /\ prog = "search" /\ pc = "apply"
    /\ arg \in [outcome : SearchOutcomes, name : {"Acme Cafe", "", None}]
    /\ ret = <<>>
    /\ Idle

P_Search ==
    /\ prog = "search" /\ pc = "apply"
    /\ ret' = SearchBusinessInfo(arg.outcome, arg.name)
    /\ pc' = "done"
    /\ UNCHANGED funOther

InitParse ==
    /\ prog = "parse" /\ pc = "apply"
    /\ arg \in [text : GemTexts, wellformed : BOOLEAN, payload : GemPayloads]
    /\ ret = <<>>
    /\ Idle

\* gem_gemini_enrichment.py lines 103-132 on one response text
P_Parse ==
    /\ prog = "parse" /\ pc = "apply"
    /\ ret' = GemParse(arg.text, arg.wellformed, arg.payload)
    /\ pc' = "done"
    /\ UNCHANGED funOther

\* what get_place_details (gem_google_maps_client.py 69-82) returns for a
\* found place: {} on failure, else the detail record
Detail(rating, reviews, status) ==
    [name |-> "Acme Cafe", formatted_address |-> "1 Main St, Springfield, IL",
     rating |-> rating, user_ratings_total |-> reviews,
     business_status |-> status]

FoundDetails ==
    { EmptyDict,
      Detail(50, 400, "OPERATIONAL"),
      Detail(45, 200, "OPERATIONAL"),
      Detail(30, 10, "OPERATIONAL"),
      Detail(50, 400, "CLOSED_TEMPORARILY") }

\* a nearby-search result with its place id, or without one (None)
FoundPlace(id, d) == [place_id |-> id, details |-> d]

FoundLists(max) ==
    UNION { { [n \in 1..len |-> FoundPlace(ids[n], ds[n])] :
                ids \in [1..len -> {"id", None}],
                ds \in [1..len -> FoundDetails] } : len \in 0..max }

\* line 131
Passes(d, min_rating, min_reviews) ==
    /\ Get(d, "rating", 0) >= min_rating
    /\ Get(d, "user_ratings_total", 0) >= min_reviews
    /\ Get(d, "business_status", None) = "OPERATIONAL"

\* lines 133-149; n is the position of the place in the nearby results and
\* stands for its place id
FormatLead(n, d) ==
    [name |-> Get(d, "name", "N/A"),
     address |-> Get(d, "formatted_address", "N/A"),
     phone |-> Get(d, "formatted_phone_number", "N/A"),
     website |-> Get(d, "website", "N/A"),
     rating |-> Get(d, "rating", 0),
     reviews |-> Get(d, "user_ratings_total", 0),
     place_id |-> n,
     status |-> Get(d, "business_status", "N/A"),
     lead_score |-> WeightedScore(Get(d, "rating", 0),
                                  Get(d, "user_ratings_total", 0))]

\* lines 114-126: a place without id or without details is skipped
Fetched(p) == p.place_id # None /\ p.details # EmptyDict

\* lines 112-151: the loop over the nearby results, from position n on
RECURSIVE PotentialLeads(_, _, _, _)
PotentialLeads(found, n, min_rating, min_reviews) ==
    IF n > Len(found) THEN <<>>
    ELSE LET rest == PotentialLeads(found, n + 1, min_rating, min_reviews)
         IN  IF Fetched(found[n])
                /\ Passes(found[n].details, min_rating, min_reviews)
             THEN <<FormatLead(n, found[n].details)>> \o rest
             ELSE rest

SortNoLimit(potential_leads, limit) ==
    LET order == SelectTop(potential_leads, Len(potential_leads))
    IN  [k \in 1..Len(order) |-> potential_leads[order[k]]]

\* lines 155-164: sorted by lead_score, descending, then cut to the limit
SortAndLimit(potential_leads, limit) ==
    LET order == SelectTop(potential_leads, limit)
    IN  [k \in 1..Len(order) |-> potential_leads[order[k]]]

\* fetch_leads, lines 85-164: an error string when the location cannot be
\* geocoded, else the list of leads
FetchLeads(geocoded, found, min_rating, min_reviews, limit) ==
    IF ~geocoded THEN [error |-> TRUE, leads |-> <<>>]
    ELSE [error |-> FALSE,
          leads |-> SortAndLimit(
                      PotentialLeads(found, 1, min_rating, min_reviews),
                      limit)]

\* gem_app.py lines 159, 170 and app.py line 132: both apps ask for 8 leads
FetchLimit == 8
Thresholds == { <<0, 0>>, <<40, 50>> }

InitFetch ==
    /\ prog = "fetch" /\ pc = "apply"
    /\ arg \in [geocoded : BOOLEAN, found : FoundLists(MaxPlaces),
                thresholds : Thresholds, limit : {1, FetchLimit}]
    /\ ret = <<>>
    /\ Idle

P_Fetch ==
    /\ prog = "fetch" /\ pc = "apply"
    /\ ret' = FetchLeads(arg.geocoded, arg.found, arg.thresholds[1],
                         arg.thresholds[2], arg.limit)
    /\ pc' = "done"
    /\ UNCHANGED funOther

\* the CSV file name: a location is a string over letters, digits, the
\* space and the comma
Alnum == {"a", "7"}
LocationChars == Alnum \cup {" ", ","}
Locations == UNION { [1..n -> LocationChars] : n \in 0..MaxTextLen }

\* app.py line 268: location.replace(' ', '_')
SafeNameApp(location) ==
    [n \in 1..Len(location) |->
        IF location[n] = " " THEN "_" ELSE location[n]]

\* gem_app.py line 395: "".join(c if c.isalnum() else "_" for c in location)
SafeNameGem(location_input) ==
    [n \in 1..Len(location_input) |->
        IF location_input[n] \in Alnum THEN location_input[n] ELSE "_"]

InitCsv ==
    /\ prog = "csv" /\ pc = "apply"
    /\ arg \in Locations
    /\ ret = <<>>
    /\ Idle

P_Csv ==
    /\ prog = "csv" /\ pc = "apply"
    /\ ret' = [app |-> SafeNameApp(arg), gem |-> SafeNameGem(arg)]
    /\ pc' = "done"
    /\ UNCHANGED funOther

NextFun == P_Score \/ P_Search \/ P_Parse \/ P_Fetch \/ P_Csv

(***************************************************************************)
(* Script runs of app.py and of gem_app.py                                 *)
(* A run starts with the widget values of `arg`; st.session_state lives on *)
(* from run to run, the script's own variables do not.                     *)
(***************************************************************************)
\* a secret is absent (None: st.secrets[...] raises KeyError), empty, or set
KeyValues == {None, "", "AIza"}

IsProviderCall(e) == e[1] \in {"geocode", "nearby", "details", "generate"}

ProviderCalls == SelectSeq(log, IsProviderCall)

\* the places of a run: every one has an id, details and is operational
UiDetails == { Detail(45, 200, "OPERATIONAL"), Detail(30, 10, "OPERATIONAL") }

UiFoundLists ==
    UNION { [1..len -> { FoundPlace("id", d) : d \in UiDetails }] :
              len \in 0..MaxPlaces }

Inputs ==
    [maps_key : KeyValues, gemini_key : KeyValues,
     location : {"", "Pune"}, search_button : BOOLEAN,
     thresholds : Thresholds]

\* what st.session_state holds for the results: the leads, the location
\* data and the flag
Snapshot(stored_leads, location_data, flag) ==
    [leads |-> stored_leads, location_data |-> location_data, flag |-> flag]

\* app.py lines 75-81, gem_app.py lines 105-109.  run numbers the script
\* runs; location_run and leads_run tell which run stored the location data
\* and the leads; prev is what was stored when the run began; shown tells
\* whether the results block displayed leads; halted is st.stop().
NewSession ==
    [search_completed |-> FALSE, search_performed |-> FALSE,
     location_data |-> None, message |-> "", found |-> <<>>,
     run |-> 1, location_run |-> 0, leads_run |-> 0,
     shown |-> FALSE, halted |-> FALSE,
     prev |-> Snapshot(<<>>, None, FALSE)]

LocationNeverMissing(location) == FALSE

\* app.py line 113, gem_app.py line 149: not location
LocationMissing(location) == location = ""

\* <<kind, 1>>, ..., <<kind, n>>
Calls(kind, n) == [k \in 1..n |-> <<kind, k>>]

RequestWithRetry(kind) == <<<<kind, 0>>, <<kind, 0>>>>

\* google_maps_client.py lines 15 and 52: one requests.get, no retry
OneRequest(kind) == <<<<kind, 0>>>>

uiOther == <<prog, leads0, max_leads, top_leads, out_list, i, search_results,
             inflight, raised, enrich_toggle, details, business_data,
             ret, page_token>>

\* ---- app.py ----

\* google_maps_client.py line 58 cuts the nearby results; lines 108-147 turn
\* each into a lead.  The nearby result carries rating and review count
\* when the place has them, the detail lookup adds address, phone and
\* website.
NearbyResult(n, p) ==
    [place_id |-> n, name |-> p.details.name,
     vicinity |-> "1 Main St, Springfield", lat |-> 40, lng |-> 74]
    @@ (IF "rating" \in DOMAIN p.details
        THEN [rating |-> p.details.rating] ELSE EmptyDict)
    @@ (IF "user_ratings_total" \in DOMAIN p.details
        THEN [user_ratings_total |-> p.details.user_ratings_total]
        ELSE EmptyDict)

PlaceDetails(p) ==
    [formatted_address |-> p.details.formatted_address,
     website |-> "https://w", formatted_phone_number |-> "555-0100"]

GetBusinessLeads(found, max_results) ==
    LET businesses == Take(found, max_results)
    IN  [n \in 1..Len(businesses) |->
            LET bd == WithDetails(BasicInfo(NearbyResult(n, businesses[n])),
                                  PlaceDetails(businesses[n]))
            IN  Update(bd, [lead_score |-> LeadScore(bd)])]

AppFilterOff(L, min_rating, min_reviews) == L

\* app.py lines 139-142
AppFilter(L, min_rating, min_reviews) ==
    SelectSeq(L, LAMBDA lead : /\ Get(lead, "rating", 0) >= min_rating
                               /\ Get(lead, "reviews", 0) >= min_reviews)

NoReset(s) == s

\* app.py lines 117-119 (enriched_leads is cleared with them)
ResetForNewSearch(s) ==
    [s EXCEPT !.search_completed = FALSE, !.location_data = None,
              !.location_run = 0, !.leads_run = 0]

\* app.py lines 172-175: the results block at the end of a run
EndRunApp(s, stored_leads) ==
    [s EXCEPT !.shown = s.search_completed /\ stored_leads # <<>>]

\* lines 167-170: the handler of the search block
OnSearchError(s, stored_leads) ==
    EndRunApp([s EXCEPT !.message = "An error occurred"], stored_leads)

\* lines 84-119: the welcome page, or the click and its validation
A_Run ==
    /\ prog = "ui_app" /\ pc = "a_start"
    /\ IF ~arg.search_button
       THEN /\ session' = EndRunApp(
                   [session EXCEPT !.message =
                      IF session.search_completed THEN "" ELSE "welcome"],
                   enriched_leads)
            /\ enriched_leads' = enriched_leads
            /\ pc' = "done"
       ELSE IF LocationMissing(arg.location)
       THEN /\ session' = EndRunApp(
                   [session EXCEPT !.message = "Location is required"],
                   enriched_leads)
            /\ enriched_leads' = enriched_leads
            /\ pc' = "done"
       ELSE /\ session' = ResetForNewSearch(session)
            /\ enriched_leads' = <<>>
            /\ pc' = "a_geocode"
    /\ UNCHANGED <<leads, final_leads_df, place, log, arg>>
    /\ UNCHANGED uiOther

\* get_business_leads line 92 and geocode_location, lines 6-33: an absent key
\* raises before the request; an empty key is sent and refused
A_Geocode ==
    /\ prog = "ui_app" /\ pc = "a_geocode"
    /\ IF arg.maps_key = None
       THEN /\ session' = OnSearchError(session, enriched_leads)
            /\ pc' = "done"
            /\ log' = log
       ELSE /\ log' = log \o OneRequest("geocode")
            /\ \E ok \in BOOLEAN :
                 IF ok /\ arg.maps_key # ""
                 THEN session' = session /\ pc' = "a_nearby"
                 ELSE /\ session' = OnSearchError(session, enriched_leads)
                      /\ pc' = "done"
    /\ UNCHANGED <<leads, enriched_leads, final_leads_df, place, arg>>
    /\ UNCHANGED uiOther

\* search_businesses, lines 35-66, the loop of get_business_leads, and
\* app.py line 136
A_Search ==
    /\ prog = "ui_app" /\ pc = "a_nearby"
    /\ \E ok \in BOOLEAN :
         IF ok
         THEN \E found \in UiFoundLists :
                /\ session' = [session EXCEPT
                                 !.found = found,
                                 !.location_data = arg.location,
                                 !.location_run = session.run]
                /\ place' = Take(found, FetchLimit)
                /\ leads' = GetBusinessLeads(found, FetchLimit)
                /\ log' = log \o OneRequest("nearby")
                            \o Calls("details", Min(Len(found), FetchLimit))
                /\ pc' = "a_filter"
         ELSE /\ session' = OnSearchError(session, enriched_leads)
              /\ log' = log \o OneRequest("nearby")
              /\ pc' = "done"
              /\ UNCHANGED <<place, leads>>
    /\ UNCHANGED <<enriched_leads, final_leads_df, arg>>
    /\ UNCHANGED uiOther

\* app.py lines 138-147
A_Filter ==
    /\ prog = "ui_app" /\ pc = "a_filter"
    /\ leads' = AppFilter(leads, arg.thresholds[1], arg.thresholds[2])
    /\ IF leads' = <<>>
       THEN /\ session' = EndRunApp(
                   [session EXCEPT !.message = "No businesses found"],
                   enriched_leads)
            /\ pc' = "done"
       ELSE /\ session' = session
            /\ pc' = "a_enrich"
    /\ UNCHANGED <<enriched_leads, final_leads_df, place, log, arg>>
    /\ UNCHANGED uiOther

\* app.py lines 153-158: enrich_leads on the filtered leads.  The loop is the
\* program enrich_leads above; a run here takes one outcome for the whole
\* batch.  setup_gemini raises on an absent key, before any call; an empty
\* key is configured and the calls are made and refused.
A_Enrich ==
    /\ prog = "ui_app" /\ pc = "a_enrich"
    /\ LET order == SelectTop(leads, FetchLimit)
           n == Len(order)
       IN  IF arg.gemini_key = None
           THEN /\ enriched_leads' =
                       [k \in 1..n |-> Update(leads[order[k]], DefaultsError)]
                /\ log' = log
           ELSE /\ \E ok \in BOOLEAN :
                     enriched_leads' =
                       [k \in 1..n |->
                          Update(leads[order[k]],
                                 IF ok /\ arg.gemini_key # ""
                                 THEN FullPayload ELSE DefaultsError)]
                /\ log' = log \o Calls("search", n) \o Calls("generate", n)
    /\ session' = [session EXCEPT !.search_completed = TRUE,
                                  !.leads_run = session.run]
    /\ pc' = "a_rerun"
    /\ UNCHANGED <<leads, final_leads_df, place, arg>>
    /\ UNCHANGED uiOther

\* app.py line 165: st.rerun() runs the script again without a click, and
\* the results block shows the stored leads
A_Rerun ==
    /\ prog = "ui_app" /\ pc = "a_rerun"
    /\ session' = EndRunApp(session, enriched_leads)
    /\ pc' = "done"
    /\ UNCHANGED <<leads, enriched_leads, final_leads_df, place, log, arg>>
    /\ UNCHANGED uiOther

InitUiApp ==
    /\ prog = "ui_app" /\ pc = "a_start"
    /\ arg \in Inputs
    /\ session = NewSession /\ page_token = NoToken
    /\ ret = <<>>
    /\ leads = <<>> /\ leads0 = <<>> /\ max_leads = 0
    /\ top_leads = <<>> /\ enriched_leads = <<>> /\ out_list = <<>>
    /\ i = 1 /\ search_results = <<>> /\ inflight = 0 /\ log = <<>>
    /\ raised = {}
    /\ enrich_toggle = TRUE /\ final_leads_df = <<>>
    /\ place = <<>> /\ details = EmptyDict /\ business_data = EmptyDict

\* ---- gem_app.py ----

\* gem_app.py lines 48-60: both keys are there and not empty
KeysConfigured(maps_key, gemini_key) ==
    /\ maps_key # None /\ gemini_key # None
    /\ maps_key # "" /\ gemini_key # ""

\* st.stop(): the script ends at once, the results block is not reached
Stop(s) == [s EXCEPT !.halted = TRUE, !.shown = FALSE]

\* gem_app.py line 257: the results block at the end of a run
EndRunGem(s, stored_leads) ==
    [s EXCEPT !.shown = s.search_performed /\ stored_leads # <<>>]

\* lines 48-60
U_Keys ==
    /\ prog = "ui_gem" /\ pc = "u_keys"
    /\ IF KeysConfigured(arg.maps_key, arg.gemini_key)
       THEN session' = session /\ pc' = "u_main"
       ELSE /\ session' = Stop([session EXCEPT !.message = "API Key"])
            /\ pc' = "done"
    /\ UNCHANGED <<leads, enriched_leads, final_leads_df, place, log, arg>>
    /\ UNCHANGED uiOther

\* lines 112-151: the welcome page with its example geocode, or the click
\* and its validation
U_Main ==
    /\ prog = "ui_gem" /\ pc = "u_main"
    /\ IF ~arg.search_button
       THEN /\ IF session.search_performed
               THEN /\ session' = EndRunGem(session, final_leads_df)
                    /\ log' = log
               ELSE /\ session' = EndRunGem(
                           [session EXCEPT !.message = "welcome"],
                           final_leads_df)
                    /\ log' = log \o OneRequest("geocode")
            /\ final_leads_df' = final_leads_df
            /\ pc' = "done"
       ELSE /\ final_leads_df' = <<>>
            /\ log' = log
            /\ IF LocationMissing(arg.location)
               THEN /\ session' = Stop([session EXCEPT
                                          !.search_performed = TRUE,
                                          !.leads_run = 0,
                                          !.message = "Location is required"])
                    /\ pc' = "done"
               ELSE /\ session' = [session EXCEPT !.search_performed = TRUE,
                                                  !.leads_run = 0]
                    /\ pc' = "u_fetch"
    /\ UNCHANGED <<leads, enriched_leads, place, arg>>
    /\ UNCHANGED uiOther

\* lines 161-184: fetch_leads and the checks of what it returned
U_Fetch ==
    /\ prog = "ui_gem" /\ pc = "u_fetch"
    /\ \E geocoded \in BOOLEAN :
         IF ~geocoded
         THEN /\ log' = log \o OneRequest("geocode")
              /\ session' = Stop([session EXCEPT
                                    !.message = "Google Maps Search Error"])
              /\ leads' = leads
              /\ pc' = "done"
         ELSE \E found \in UiFoundLists :
              /\ log' = log \o OneRequest("geocode") \o OneRequest("nearby")
                          \o Calls("details", Len(found))
              /\ leads' = FetchLeads(TRUE, found, arg.thresholds[1],
                                     arg.thresholds[2], FetchLimit).leads
              /\ IF leads' = <<>>
                 THEN /\ session' = Stop([session EXCEPT
                                            !.found = found,
                                            !.message = "No businesses found"])
                      /\ pc' = "done"
                 ELSE /\ session' = [session EXCEPT !.found = found]
                      /\ pc' = "u_enrich"
    /\ UNCHANGED <<enriched_leads, final_leads_df, place, arg>>
    /\ UNCHANGED uiOther

\* lines 190-257: the enrichment block is the program "gem" above; a run
\* here takes one outcome for the whole batch
U_Enrich ==
    /\ prog = "ui_gem" /\ pc = "u_enrich"
    /\ IF enrich_toggle
       THEN /\ \E ok \in BOOLEAN :
                 final_leads_df' =
                   [k \in 1..Len(leads) |->
                      Merged(leads[k],
                             IF ok THEN GemFull
                             ELSE [GemDefaults EXCEPT
                                     !.description = "API Error"])]
            /\ log' = log \o Calls("generate", Len(leads))
       ELSE /\ final_leads_df' = SkipEnrichment(leads)
            /\ log' = log
    /\ session' = EndRunGem([session EXCEPT !.leads_run = session.run],
                            final_leads_df')
    /\ pc' = "done"
    /\ UNCHANGED <<leads, enriched_leads, place, arg>>
    /\ UNCHANGED uiOther

InitUiGem ==
    /\ prog = "ui_gem" /\ pc = "u_keys"
    /\ arg \in Inputs
    /\ session = NewSession /\ page_token = NoToken
    /\ ret = <<>>
    /\ leads = <<>> /\ leads0 = <<>> /\ max_leads = 0
    /\ top_leads = <<>> /\ enriched_leads = <<>> /\ out_list = <<>>
    /\ i = 1 /\ search_results = <<>> /\ inflight = 0 /\ log = <<>>
    /\ raised = {}
    /\ enrich_toggle \in BOOLEAN /\ final_leads_df = <<>>
    /\ place = <<>> /\ details = EmptyDict /\ business_data = EmptyDict

\* ---- the next script run of either app ----

IsUi == prog \in {"ui_app", "ui_gem"}

\* what the session holds for the results
Stored ==
    IF prog = "ui_app"
    THEN Snapshot(enriched_leads, session.location_data,
                  session.search_completed)
    ELSE Snapshot(final_leads_df, session.location_data,
                  session.search_performed)

\* the user changes widgets or clicks: the script runs again from the top
\* with the same secrets; the script's variables start afresh
Ui_NextRun ==
    /\ IsUi /\ pc = "done" /\ session.run < MaxRuns
    /\ \E a \in Inputs :
         /\ a.maps_key = arg.maps_key /\ a.gemini_key = arg.gemini_key
         /\ arg' = a
    /\ session' = [session EXCEPT !.run = session.run + 1, !.message = "",
                                  !.found = <<>>, !.halted = FALSE,
                                  !.shown = FALSE, !.prev = Stored]
    /\ pc' = IF prog = "ui_app" THEN "a_start" ELSE "u_keys"
    /\ leads' = <<>> /\ place' = <<>> /\ log' = <<>>
    /\ UNCHANGED <<enriched_leads, final_leads_df>>
    /\ UNCHANGED uiOther

NextUiApp ==
    A_Run \/ A_Geocode \/ A_Search \/ A_Filter \/ A_Enrich \/ A_Rerun

NextUiGem == U_Keys \/ U_Main \/ U_Fetch \/ U_Enrich \/ Ui_NextRun

\* ---- the leads each app hands to its enrichment step ----
\* an operational place with rating and review count, or with neither
HandoverDetails ==
    { Detail(45, 200, "OPERATIONAL"),
      [name |-> "Acme Cafe", formatted_address |-> "1 Main St, Springfield, IL",
       business_status |-> "OPERATIONAL"] }

HandoverLists ==
    UNION { [1..len -> { FoundPlace("id", d) : d \in HandoverDetails }] :
              len \in 0..MaxFound }

\* app.py lines 128-153: get_business_leads with max_results=8, then the
\* filter; gem_app.py lines 163-171: fetch_leads with limit=8
HandedToEnrichment(found, thresholds) ==
    [app |-> AppFilter(GetBusinessLeads(found, FetchLimit),
                       thresholds[1], thresholds[2]),
     gem |-> FetchLeads(TRUE, found, thresholds[1], thresholds[2],
                        FetchLimit).leads]

InitHandover ==
    /\ prog = "handover" /\ pc = "apply"
    /\ arg \in [found : HandoverLists, thresholds : Thresholds]
    /\ ret = <<>>
    /\ Idle

P_Handover ==
    /\ prog = "handover" /\ pc = "apply"
    /\ ret' = HandedToEnrichment(arg.found, arg.thresholds)
    /\ pc' = "done"
    /\ UNCHANGED funOther

\* ---- find_nearby_places, gem_google_maps_client.py lines 30-66 ----
\* The provider holds some pages; arg.pages[k] tells whether the response
\* for page k has a 'results' key.  The result of page k is k.
PageLimit == 3

PageResults(pages, k) == IF pages[k] THEN <<k>> ELSE <<>>

\* the next_page_token of the response for page k
NextPageToken(pages, k) == IF k < Len(pages) THEN k + 1 ELSE NoToken

OnNearbyErrorPartial(all_results) == all_results

\* lines 64-66
OnNearbyError(all_results) == <<>>

nearbyOther == <<prog, leads, leads0, max_leads, top_leads, enriched_leads,
                 search_results, inflight, raised, enrich_toggle,
                 final_leads_df, place, details, business_data, arg, session>>

\* lines 51-62: one turn of the loop, with the return at line 62 when the
\* loop ends, and lines 64-66 when the request raises
N_Request ==
    /\ prog = "nearby" /\ pc = "n_loop" /\ i <= PageLimit
    /\ LET k == IF page_token = NoToken THEN 1 ELSE page_token
           request == IF page_token = NoToken
                      THEN <<<<"request", NoToken>>>>
                      ELSE <<<<"sleep", i>>, <<"request", page_token>>>>
       IN  \E raises \in BOOLEAN :
             IF raises
             THEN /\ log' = log \o request \o <<<<"raise", i>>>>
                  /\ ret' = OnNearbyError(out_list)
                  /\ pc' = "done"
                  /\ UNCHANGED <<out_list, page_token, i>>
             ELSE /\ log' = log \o request
                  /\ out_list' = out_list \o PageResults(arg.pages, k)
                  /\ page_token' = NextPageToken(arg.pages, k)
                  /\ IF page_token' = NoToken \/ i = PageLimit
                     THEN ret' = out_list' /\ pc' = "done" /\ i' = i
                     ELSE ret' = ret /\ pc' = "n_loop" /\ i' = i + 1
    /\ UNCHANGED nearbyOther

InitNearby ==
    /\ prog = "nearby" /\ pc = "n_loop"
    /\ arg \in [pages : UNION { [1..m -> BOOLEAN] : m \in 1..MaxPages }]
    /\ ret = <<>>
    /\ Idle

NextNearby == N_Request

Init == InitApp \/ InitGem \/ InitMaps \/ InitScore \/ InitSearch \/ InitParse
        \/ InitFetch \/ InitCsv \/ InitNearby \/ InitHandover
        \/ InitUiApp \/ InitUiGem
Next == NextApp \/ NextGem \/ NextMaps \/ NextFun \/ NextUiApp \/ NextUiGem
        \/ NextNearby \/ P_Handover
Spec == Init /\ [][Next]_vars

(***************************************************************************)
(* Properties                                                              *)
(***************************************************************************)
IsEnter(e) == e[1] = "enter"
IsExternalOrDelay(e) == e[1] \in {"search", "generate", "sleep"}

\* the leads the client was invoked for, in order
Enters == [n \in 1..Len(SelectSeq(log, IsEnter)) |-> SelectSeq(log, IsEnter)[n][2]]

InSeq(s, x) == \E n \in 1..Len(s) : s[n] = x

HasAllKeys(d, keys) == keys \subseteq DOMAIN d

\* C1: every record returned by enrich_business_data holds all six
\* enrichment keys, whatever the external calls did.
C1_AllSixKeys ==
    prog = "app" =>
        \A n \in 1..Len(enriched_leads) :
            HasAllKeys(leads[enriched_leads[n]], EnrichKeys)

\* C2: the enrichment client never raises to its caller for a lead made by
\* the normalizer: in enrich_leads only a lead whose address is not a string
\* can make enrich_business_data raise, and enrich_lead_data_with_gemini
\* never raises.
C2_NeverRaises ==
    /\ prog = "app" => \A x \in raised : ~NormalizerProduced(leads0[x])
    /\ prog = "gem" => raised = {}

\* a normalizer-made lead whose generative call failed came back as a record
C2_Witness ==
    /\ prog = "app" /\ pc = "done"
    /\ \E n \in 1..Len(enriched_leads) :
         /\ NormalizerProduced(leads0[enriched_leads[n]])
         /\ enriched_leads[n] \notin raised
         /\ InSeq(log, <<"generate", enriched_leads[n]>>)
         /\ leads[enriched_leads[n]].description = DefaultsError.description

\* C3: enrich_leads returns exactly min(len(leads), max_leads) records, each
\* carrying the place_id of an input record, none of them twice.
C3_LengthAndPlaceIds ==
    (prog = "app" /\ pc = "done") =>
        /\ Len(enriched_leads) = Min(Len(leads0), max_leads)
        /\ \A n \in 1..Len(enriched_leads) :
             \E m \in 1..Len(leads0) :
                leads[enriched_leads[n]].place_id = leads0[m].place_id
        /\ \A n, m \in 1..Len(enriched_leads) :
             n # m => enriched_leads[n] # enriched_leads[m]

\* C4: a selected lead whose enrichment raised is still appended, with all
\* six enrichment keys set to the default strings, and every selected lead
\* is in the output when the loop ends.
C4_FailedLeadKept ==
    prog = "app" =>
        /\ \A x \in raised :
             /\ InSeq(enriched_leads, x)
             /\ HasAllKeys(leads[x], EnrichKeys)
             /\ \A k \in EnrichKeys : leads[x][k] = DefaultsLoop[k]
        /\ pc = "done" =>
             \A n \in 1..Len(top_leads) : InSeq(enriched_leads, top_leads[n])

\* an enrichment raised and a later lead was enriched after it
C4_Witness ==
    /\ prog = "app" /\ pc = "done"
    /\ \E n, m \in 1..Len(enriched_leads) :
         /\ n < m
         /\ enriched_leads[n] \in raised
         /\ enriched_leads[m] \notin raised

Score0(x) == Get(leads0[x], "lead_score", 0)

\* C5: the selection is the max_leads highest scores in stable descending
\* order, the output keeps that order, and scores 90, 70, 90, 50 with
\* max_leads = 3 give the first 90, the second 90, then the 70.
C5_StableTopSelection ==
    (prog = "app" /\ pc # "start") =>
        /\ Len(top_leads) = Min(Len(leads0), max_leads)
        /\ \A n \in 1..Len(top_leads), u \in 1..Len(leads0) :
             ~InSeq(top_leads, u) => Score0(top_leads[n]) >= Score0(u)
        /\ \A a, b \in 1..Len(top_leads) :
             a < b => /\ Score0(top_leads[a]) >= Score0(top_leads[b])
                      /\ Score0(top_leads[a]) = Score0(top_leads[b])
                            => top_leads[a] < top_leads[b]
        /\ enriched_leads = SubSeq(top_leads, 1, Len(enriched_leads))
        /\ (leads0 = ExampleLeads /\ max_leads = 3) => top_leads = <<1, 3, 2>>

C5_Witness ==
    /\ prog = "app" /\ pc = "done"
    /\ leads0 = ExampleLeads /\ max_leads = 3
    /\ enriched_leads = <<1, 3, 2>>

\* the list the loop of the running program walks, as lead numbers
Selected == IF prog = "app" THEN top_leads ELSE [n \in 1..Len(leads) |-> n]

C7_IdentityUntouched ==
    /\ prog = "app" =>
         \A n \in 1..Len(enriched_leads), k \in IdentityKeys :
            leads[enriched_leads[n]][k] = leads0[enriched_leads[n]][k]
    /\ prog = "gem" =>
         \A n \in 1..Len(out_list), k \in IdentityKeys :
            out_list[n][k] = leads0[n][k]

\* C8: when the orchestrator returns, the records of the input list have the
\* keys and values they had before the call.
C8_InputNotMutated ==
    (prog \in {"app", "gem"} /\ pc = "done") => leads = leads0

EmptySentinels == {"", "N/A", "[]"}

\* C9: a lead with an empty name comes back with description "Missing
\* Input" and the other enrichment fields empty, and no search, generative
\* call or delay happened for it.
C9_MissingInput ==
    /\ prog = "app" =>
         \A n \in 1..Len(enriched_leads) :
            leads0[enriched_leads[n]].name = "" =>
               /\ Get(leads[enriched_leads[n]], "description", "") = "Missing Input"
               /\ \A k \in EnrichKeys \ {"description"} :
                     Get(leads[enriched_leads[n]], k, "") \in EmptySentinels
               /\ \A e \in 1..Len(log) :
                     log[e][2] = enriched_leads[n] => ~IsExternalOrDelay(log[e])
    /\ prog = "gem" =>
         \A n \in 1..Len(out_list) :
            (InSeq(log, <<"enter", n>>) /\ leads0[n].name = "") =>
               /\ out_list[n].description = "Missing Input"
               /\ \A k \in GemKeys \ {"description"} :
                     out_list[n][k] \in EmptySentinels
               /\ \A e \in 1..Len(log) :
                     log[e][2] = n => ~IsExternalOrDelay(log[e])

Ind(b) == IF b THEN 1 ELSE 0

\* C10: the score get_business_leads assigns is 50 plus 10 for each of
\* rating >= 4.5, reviews >= 200, a non-empty website and a non-empty phone,
\* taken from the raw record and the fetched details; it is one of 50..90.
C10_AdditiveScore ==
    (prog = "maps" /\ pc \in {"m_loop", "done"} /\ Len(leads) >= 1) =>
        /\ leads[Len(leads)].lead_score =
              50 + 10 * Ind(Get(place[Len(leads)], "rating", 0) >= 45)
                 + 10 * Ind(Get(place[Len(leads)], "user_ratings_total", 0) >= 200)
                 + 10 * Ind(Get(details, "website", "") # "")
                 + 10 * Ind(Get(details, "formatted_phone_number", "") # "")
        /\ \A n \in 1..Len(leads) : leads[n].lead_score \in {50, 60, 70, 80, 90}

\* a place whose detail fetch returned nothing, with both thresholds met
C10_Witness ==
    /\ prog = "maps" /\ pc = "done" /\ Len(leads) >= 1
    /\ details = EmptyDict
    /\ Get(place[Len(leads)], "rating", 0) = 45
    /\ Get(place[Len(leads)], "user_ratings_total", 0) = 200
    /\ leads[Len(leads)].lead_score = 70

IsGenerate(e) == e[1] = "generate"
IsSleep(e) == e[1] = "sleep"

\* C12: in one enrichment batch two generate_content calls never happen
\* without a 1-second delay between them: enrich_leads sleeps right before
\* entering the client, and enrich_lead_data_with_gemini sleeps right after
\* every call that reached the service, failed or not.
C12_DelayBetweenCalls ==
    prog \in {"app", "gem"} =>
        /\ \A a, b \in 1..Len(log) :
             (a < b /\ IsGenerate(log[a]) /\ IsGenerate(log[b])) =>
                \E c \in (a + 1)..(b - 1) : IsSleep(log[c])
        /\ prog = "app" =>
             \A e \in 1..Len(log) :
                IsEnter(log[e]) => e > 1 /\ log[e - 1] = <<"sleep", log[e][2]>>
        /\ prog = "gem" =>
             \A e \in 1..Len(log) :
                (IsGenerate(log[e]) /\ ~(pc = "g_await" /\ e = Len(log))) =>
                   e < Len(log) /\ log[e + 1] = <<"sleep", log[e][2]>>

\* a call failed with an API error and the next call came after the delay
C12_Witness ==
    /\ prog = "gem" /\ pc = "done"
    /\ Len(out_list) >= 2
    /\ Get(out_list[1], "description", "") = "API Error"
    /\ InSeq(log, <<"generate", 1>>) /\ InSeq(log, <<"generate", 2>>)

\* C13: in gem_app, when enrichment is on and fails before any lead was
\* processed (the client could not be created), the stored result is the
\* list fetch_leads returned, in order, and not an empty result.
C13_FallbackToBaseLeads ==
    (prog = "gem" /\ pc = "done" /\ enrich_toggle /\ Enters = <<>>) =>
        /\ final_leads_df = leads0
        /\ final_leads_df # <<>>

C13_Witness ==
    /\ prog = "gem" /\ pc = "done" /\ enrich_toggle
    /\ log = <<<<"client", 0>>>>
    /\ Len(final_leads_df) >= 2

\* C11: every lead either scorer produces has an integer lead_score between
\* 0 and 100; the weighted score of every rating in [0, 5] and every review
\* count is an integer between 0 and 100, and is 100 whenever
\* rating*15 + min(reviews/10, 35) exceeds 100.
C11_ScoreBounds ==
    /\ (prog \in {"maps", "fetch"}) =>
           \A n \in DOMAIN leads : leads[n].lead_score \in 0..100
    /\ (prog = "score" /\ pc = "done") =>
           /\ ret \in 0..100
           /\ (RatingWeight * arg.rating + Min(arg.reviews, ReviewsCap)
                  > ScoreCap) => ret = 100

C11_Witness ==
    /\ prog = "score" /\ pc = "done"
    /\ arg.rating = MaxRatingTenths /\ arg.reviews > ReviewsCap
    /\ ret = 100

\* the detail fetch of place n failed in get_business_leads: no delay follows
DetailsFailed(n) ==
    InSeq(log, <<"details", n>>) /\ ~InSeq(log, <<"sleep", n>>)

\* C16: when the detail fetch of a place fails, the place is skipped and the
\* batch continues: the failed place is not among the returned leads, and
\* every other place is still fetched and processed.
C16_FailedPlaceSkipped ==
    /\ (prog = "maps" /\ pc = "done") =>
           \A n \in DOMAIN place :
               IF DetailsFailed(n)
               THEN \A k \in DOMAIN leads : leads[k].place_id # PlaceIds[n]
               ELSE \E k \in DOMAIN leads : leads[k].place_id = PlaceIds[n]
    /\ (prog = "fetch" /\ pc = "done" /\ ~ret.error) =>
           \A n \in DOMAIN arg.found :
               /\ arg.found[n].details = EmptyDict =>
                      \A k \in DOMAIN ret.leads : ret.leads[k].place_id # n
               /\ (/\ Fetched(arg.found[n])
                   /\ Passes(arg.found[n].details, arg.thresholds[1],
                             arg.thresholds[2])
                   /\ Len(arg.found) <= arg.limit) =>
                      \E k \in DOMAIN ret.leads : ret.leads[k].place_id = n

DeclaredFields == {"place_id", "name", "address", "full_address", "lat",
                   "lng", "rating", "reviews", "phone", "website", "types",
                   "lead_score"}

\* C17: for every raw place with a place id and a name, whatever optional
\* fields it lacks and whatever the detail lookup returned, the lead that
\* get_business_leads produces has every declared field, a missing number
\* being 0.
C17_NormalizationTotal ==
    (prog = "maps") =>
        \A n \in DOMAIN leads :
            /\ DeclaredFields \subseteq DOMAIN leads[n]
            /\ "rating" \notin DOMAIN place[n] => leads[n].rating = 0
            /\ "user_ratings_total" \notin DOMAIN place[n] =>
                   leads[n].reviews = 0

\* C14: when either API key is missing or empty, the application halts
\* before any call to the places/geocoding provider or to the
\* generative-text provider is attempted.
C14_HaltBeforeAnyCall ==
    (IsUi /\ ~KeysConfigured(arg.maps_key, arg.gemini_key)) =>
        /\ ProviderCalls = <<>>
        /\ pc \in {"a_start", "a_geocode", "u_keys", "done"}

\* C15: a click on Generate Leads with an empty location issues no geocode,
\* nearby-search, place-detail or generative-text call in either app, stores
\* no leads of its own, and the run ends with the inline error as its only
\* message (in gem_app.py the key check comes first and shows its own error).
C15_EmptyLocationBlocked ==
    (IsUi /\ arg.search_button /\ arg.location = "") =>
        /\ log = <<>>
        /\ session.leads_run # session.run
        /\ pc \in {"a_start", "u_keys", "u_main", "done"}
        /\ pc = "done" =>
               session.message =
                   IF prog = "ui_gem"
                      /\ ~KeysConfigured(arg.maps_key, arg.gemini_key)
                   THEN "API Key" ELSE "Location is required"

C15_Witness ==
    /\ prog = "ui_gem" /\ pc = "done"
    /\ arg.search_button /\ arg.location = ""
    /\ session.message = "Location is required"
    /\ session.search_performed

\* the found places that satisfy the rating and review thresholds, an
\* absent rating or review count being 0
PassCount(found, thresholds) ==
    Len(SelectSeq(found,
                  LAMBDA p :
                     /\ Get(p.details, "rating", 0) >= thresholds[1]
                     /\ Get(p.details, "user_ratings_total", 0)
                            >= thresholds[2]))

\* the leads of both apps for the found places have been filtered and cut
HandedOver == prog = "handover" /\ pc = "done"

\* C18: the filter is applied before the cap: the number of leads that reach
\* enrichment is min(8, number of found places that pass the filter).
C18_FilterBeforeCap ==
    HandedOver =>
        /\ Len(ret.gem) = Min(FetchLimit, PassCount(arg.found, arg.thresholds))
        /\ Len(ret.app) = Min(FetchLimit, PassCount(arg.found, arg.thresholds))

SearchFailed == prog = "search" /\ pc = "done" /\ arg.outcome # "results"

\* C19 as claimed: for every failure of the web request or of the result
\* parsing, search_business_info returns normally and the returned snippet
\* list is empty.
C19_EmptyOnFailure ==
    SearchFailed => (~ret.raised /\ ret.snippets = <<>>)

\* C19, amended: for every failure of the web request or of the result
\* parsing, search_business_info returns normally, and what it returns is
\* not empty: the one or two generic fallback snippets, none of them a
\* search result; enrich_business_data therefore always has snippets.
C19_FallbackOnFailure ==
    /\ SearchFailed =>
           /\ ~ret.raised
           /\ Len(ret.snippets) \in {1, 2}
           /\ \A k \in DOMAIN ret.snippets : ret.snippets[k] # "result"
    /\ (prog = "app" /\ pc = "generate") => search_results # <<>>

C19_Witness ==
    /\ SearchFailed /\ arg.outcome = "exception"
    /\ Len(ret.snippets) = 2

\* the substring from the first "{" to the last "}" of the response text
HasCandidate(text) ==
    Find(text, "{") # -1 /\ RFind(text, "}") + 1 > Find(text, "{")

Candidate(text) == Slice(text, Find(text, "{"), RFind(text, "}") + 1)

ParseDecoded ==
    /\ prog = "parse" /\ pc = "done"
    /\ HasCandidate(arg.text)
    /\ Decodes(Candidate(arg.text), arg.wellformed)

ParseFailed ==
    /\ prog = "parse" /\ pc = "done"
    /\ HasCandidate(arg.text)
    /\ ~Decodes(Candidate(arg.text), arg.wellformed)

DecodedObject ==
    IF Candidate(arg.text) = <<"{", "}">> THEN EmptyDict ELSE arg.payload

\* C20 as claimed: after decoding, every expected field whose key is absent
\* from the decoded object is "Parse Error"; when decoding fails, every
\* result field is "Parse Error".
C20_ParseErrorForEveryField ==
    /\ ParseDecoded =>
           \A k \in GemKeys :
               k \notin DOMAIN DecodedObject => ret[k] = "Parse Error"
    /\ ParseFailed => \A k \in GemKeys : ret[k] = "Parse Error"

\* C20, amended: after decoding, enriched_website, linkedin_url and
\* description are "Parse Error" when their key is absent, and key_contacts
\* is the empty list when its key is absent or its value is not a list; when
\* decoding fails, description is "JSON Parse Error" and the other fields
\* keep their defaults "N/A" and the empty list.
C20_ParseErrorForTextFields ==
    /\ ParseDecoded =>
           /\ \A k \in GemKeys \ {"key_contacts"} :
                  k \notin DOMAIN DecodedObject => ret[k] = "Parse Error"
           /\ ("key_contacts" \notin DOMAIN DecodedObject
                  \/ ~IsListValue(Get(DecodedObject, "key_contacts", "[]")))
                 => ret.key_contacts = "[]"
    /\ ParseFailed =>
           ret = [GemDefaults EXCEPT !.description = "JSON Parse Error"]

C20_Witness ==
    /\ ParseDecoded
    /\ DOMAIN DecodedObject = {"description"}
    /\ ret.linkedin_url = "Parse Error" /\ ret.enriched_website = "Parse Error"
    /\ ret.key_contacts = "[]"

\* C28: in gem_app, with enrichment on and n >= 1 fetched leads, the stored
\* final result has exactly n records, in the order fetch_leads returned
\* them, whatever fails during the enrichment block.
C28_SameLengthOnFailure ==
    (prog = "gem" /\ pc = "done" /\ enrich_toggle) =>
        /\ Len(final_leads_df) = Len(leads0)
        /\ \A n \in 1..Len(final_leads_df) :
               final_leads_df[n].place_id = leads0[n].place_id

\* C29: in gem_app, with the enrichment toggle off, no client is created,
\* no generative call is issued, and the stored final result is the list
\* fetch_leads returned: same records, same order, no enrichment key added.
C29_ToggleOffFrame ==
    (prog = "gem" /\ ~enrich_toggle) =>
        /\ log = <<>>
        /\ inflight = 0
        /\ pc = "done" =>
               /\ final_leads_df = leads0
               /\ \A n \in 1..Len(final_leads_df) :
                      DOMAIN final_leads_df[n] \cap GemKeys = {}

C29_Witness ==
    /\ prog = "gem" /\ ~enrich_toggle /\ pc = "done"
    /\ Len(final_leads_df) >= 2

\* the text holds no "{", or no "}" after its first "{"
NoObjectIn(text) ==
    ~\E n \in 1..Len(text) :
        /\ text[n] = "{"
        /\ \A m \in 1..(n - 1) : text[m] # "{"
        /\ \E m \in (n + 1)..Len(text) : text[m] = "}"

\* C26: the JSON candidate runs from the first "{" to the last "}"
\* inclusive; when the text holds no "{", or no "}" after the first "{",
\* nothing is decoded and the result is 'Response Format Error' with 'N/A',
\* 'N/A' and []; on every path the result has exactly the four keys and
\* key_contacts is a list.
C26_CandidateAndFormatError ==
    /\ (prog = "parse" /\ pc = "done") =>
           LET text == arg.text
               a == Find(text, "{")
               b == RFind(text, "}")
           IN  /\ HasCandidate(text) =>
                      /\ text[a + 1] = "{" /\ text[b + 1] = "}"
                      /\ \A m \in 1..a : text[m] # "{"
                      /\ \A m \in (b + 2)..Len(text) : text[m] # "}"
                      /\ Candidate(text) = SubSeq(text, a + 1, b + 1)
               /\ HasCandidate(text) <=> ~NoObjectIn(text)
               /\ NoObjectIn(text) =>
                      ret = [enriched_website |-> "N/A", linkedin_url |-> "N/A",
                             key_contacts |-> "[]",
                             description |-> "Response Format Error"]
               /\ DOMAIN ret = GemKeys
               /\ IsListValue(ret.key_contacts)
    /\ prog = "gem" =>
           \A n \in 1..Len(out_list) :
               "key_contacts" \in DOMAIN out_list[n] =>
                   /\ GemKeys \subseteq DOMAIN out_list[n]
                   /\ IsListValue(out_list[n].key_contacts)

C26_Witness ==
    /\ prog = "parse" /\ pc = "done"
    /\ arg.text = <<"}", "{", "x">>
    /\ ret.description = "Response Format Error"

SanitizedFrom(name, location) ==
    /\ Len(name) = Len(location)
    /\ \A n \in 1..Len(name) :
           /\ name[n] \in Alnum \cup {"_"}
           /\ location[n] \in Alnum => name[n] = location[n]

\* C22: for every location string, the location part of the CSV file name
\* of either app has the length of the location, holds only alphanumeric
\* characters and "_", and keeps each alphanumeric character in place.
C22_FileNameSanitized ==
    (prog = "csv" /\ pc = "done") =>
        /\ SanitizedFrom(ret.gem, arg)
        /\ SanitizedFrom(ret.app, arg)

IsRequest(e) == e[1] = "request"

Requests == SelectSeq(log, IsRequest)

\* the results of pages 1..n, in order
RECURSIVE PagesUpTo(_, _)
PagesUpTo(pages, n) ==
    IF n = 0 THEN <<>> ELSE PagesUpTo(pages, n - 1) \o PageResults(pages, n)

\* C25: find_nearby_places makes at most 3 page requests and stops at the
\* first response without a next_page_token; every request after the first
\* follows the 2-second pause and carries the previous response's token; on
\* success it returns the results of all pages fetched, in order; if a page
\* request raises it returns the empty list.
C25_AtMostThreePages ==
    prog = "nearby" =>
        /\ i \in 1..PageLimit
        /\ Len(Requests) <= PageLimit
        /\ \A n \in 1..Len(Requests) :
               Requests[n][2] = IF n = 1 THEN NoToken ELSE n
        /\ \A e \in 1..Len(log) :
               (IsRequest(log[e]) /\ log[e][2] # NoToken) =>
                   e > 1 /\ log[e - 1][1] = "sleep"
        /\ pc = "done" =>
               IF \E e \in 1..Len(log) : log[e][1] = "raise"
               THEN ret = <<>>
               ELSE /\ Len(Requests) = Min(Len(arg.pages), PageLimit)
                    /\ ret = PagesUpTo(arg.pages, Len(Requests))

C25_Witness ==
    /\ prog = "nearby" /\ pc = "done"
    /\ Len(arg.pages) > PageLimit
    /\ Len(Requests) = PageLimit
    /\ ret = <<1, 2, 3>>

MeetsThresholds(lead, thresholds) ==
    /\ Get(lead, "rating", 0) >= thresholds[1]
    /\ Get(lead, "reviews", 0) >= thresholds[2]

\* C23: every lead handed to the enrichment step satisfies the thresholds of
\* the search that produced it, an absent rating or review count being 0;
\* a lead of fetch_leads is also operational.
C23_HandedLeadsMeetThresholds ==
    /\ HandedOver =>
           /\ \A n \in 1..Len(ret.app) :
                  MeetsThresholds(ret.app[n], arg.thresholds)
           /\ \A n \in 1..Len(ret.gem) :
                  /\ MeetsThresholds(ret.gem[n], arg.thresholds)
                  /\ ret.gem[n].status = "OPERATIONAL"
    /\ (prog = "fetch" /\ pc = "done") =>
           \A n \in 1..Len(ret.leads) :
               /\ MeetsThresholds(ret.leads[n], arg.thresholds)
               /\ ret.leads[n].status = "OPERATIONAL"
    /\ (IsUi /\ pc \in {"a_enrich", "u_enrich"}) =>
           \A n \in 1..Len(leads) : MeetsThresholds(leads[n], arg.thresholds)

C23_Witness ==
    /\ HandedOver
    /\ arg.thresholds = <<40, 50>>
    /\ Len(arg.found) > Len(ret.app)
    /\ Len(ret.app) >= 2
    /\ \E n \in 1..Len(arg.found) : "rating" \notin DOMAIN arg.found[n].details

\* C24: fetch_leads returns an error string exactly when geocoding yields no
\* coordinates; the empty list when the nearby search yields no places;
\* otherwise at most `limit` leads in non-increasing lead_score order, each
\* of a found place that passed the filter.
C24_FetchLeadsResult ==
    (prog = "fetch" /\ pc = "done") =>
        /\ ret.error <=> ~arg.geocoded
        /\ (arg.geocoded /\ arg.found = <<>>) => ret.leads = <<>>
        /\ arg.geocoded =>
               /\ Len(ret.leads) <= arg.limit
               /\ SortedByScore(ret.leads)
               /\ \A n \in 1..Len(ret.leads) :
                      LET p == arg.found[ret.leads[n].place_id]
                      IN  /\ Fetched(p)
                          /\ Passes(p.details, arg.thresholds[1],
                                    arg.thresholds[2])
                          /\ ret.leads[n].rating = p.details.rating

C24_Witness ==
    /\ prog = "fetch" /\ pc = "done" /\ arg.geocoded
    /\ arg.limit = 1
    /\ Len(ret.leads) = 1
    /\ Len(PotentialLeads(arg.found, 1, arg.thresholds[1],
                          arg.thresholds[2])) = 2
    /\ ret.leads[1].place_id = 2

\* how many events of the kind the run has logged
CountOf(kind) ==
    LET IsKind(e) == e[1] = kind
    IN  Len(SelectSeq(log, IsKind))

\* a search of app.py that failed at geocoding or at the nearby search, or
\* that found no place
SearchFailedApp ==
    /\ prog = "ui_app" /\ pc = "done" /\ arg.search_button
    /\ \/ session.message = "An error occurred"
       \/ session.message = "No businesses found" /\ session.found = <<>>

\* C21: when geocoding or the nearby search of app.py fails or finds nothing,
\* the run ends with a message and no results: search_completed is False,
\* enriched_leads is empty, no enrichment call was made, and the geocode
\* call and the nearby call were each issued at most once for the click.
C21_FailureSurfacedNoRetry ==
    SearchFailedApp =>
        /\ session.message # ""
        /\ ~session.search_completed
        /\ enriched_leads = <<>>
        /\ ~session.shown
        /\ CountOf("search") = 0 /\ CountOf("generate") = 0
        /\ CountOf("geocode") <= 1
        /\ CountOf("nearby") <= 1

\* the nearby search fails on the click that follows a completed search
C21_Witness ==
    /\ SearchFailedApp
    /\ session.message = "An error occurred"
    /\ CountOf("geocode") = 1 /\ CountOf("nearby") = 1
    /\ session.run = 2 /\ session.prev.flag

MidSearch == {"a_geocode", "a_nearby", "a_filter", "a_enrich"}

\* C27: in app.py, whenever search_completed is True the stored
\* enriched_leads is non-empty, location_data is not None and both were
\* stored by the same search; a valid search has cleared enriched_leads,
\* location_data and search_completed before its first external call.
C27_SessionInvariant ==
    prog = "ui_app" =>
        /\ session.search_completed =>
               /\ enriched_leads # <<>>
               /\ session.location_data # None
               /\ session.leads_run = session.location_run
               /\ session.leads_run \in 1..session.run
        /\ pc = "a_geocode" =>
               /\ log = <<>>
               /\ enriched_leads = <<>>
               /\ session.location_data = None
               /\ ~session.search_completed
        /\ pc \in MidSearch =>
               ~session.search_completed /\ enriched_leads = <<>>

\* a second completed search has replaced the results of the first
C27_Witness ==
    /\ prog = "ui_app" /\ pc = "done"
    /\ session.run = 2 /\ session.prev.flag
    /\ session.search_completed /\ session.leads_run = 2
    /\ session.shown

\* a click that the location check rejected, made while the session holds
\* the leads of an earlier search
RejectedClick ==
    /\ IsUi /\ pc = "done"
    /\ arg.search_button /\ arg.location = ""
    /\ session.message = "Location is required"
    /\ session.prev.leads # <<>>

\* C30: a Generate Leads click with an empty location leaves the stored
\* leads, the stored location data and the flag as they were before the
\* click, and the results of the earlier successful search stay displayed.
C30_RejectedClickFrame ==
    RejectedClick => Stored = session.prev /\ session.shown

====
